---- MODULE Spec2Model ----
(***************************************************************************)
(* State-machine model of snark-ur5-control (the UR5 robotic arm daemon):  *)
(* main(), read_status, home_position_check, process_command, handle<C>,   *)
(* stop_on_exit and arm_output::write_arm_status.                          *)
(*                                                                         *)
(* Angles are modelled in integer degrees (the code converts the           *)
(* configured degrees to radians; the comparison is unit independent).     *)
(* The arm command stream, stdout and the status publisher are modelled    *)
(* as the sequences of what was written to them.                           *)
(***************************************************************************)
EXTENDS Integers, Sequences, FiniteSets, TLC

(***************************************************************************)
(* Bounds of the model.                                                    *)
(***************************************************************************)
\* loop iterations a session may start
MaxCycles == 2
\* status frames that may be buffered on the feedback channel at one wait
MaxBuf == 2
\* command lines the input source delivers in a session
MaxLines == 2
\* status frames the arm has sent when one wait of read_status starts, in the
\* scenarios of SpecStatus: three, so that a backlog has a first, a middle
\* and a last frame
MaxBacklog == 3
\* argument tokens of a command vector in the scenarios of SpecDispatch
MaxArgs == 3
\* azimuth blocks the lidar input delivers in a session of SpecLidar
MaxBlocks == 3
\* the encoder counts of the azimuth blocks are 0..MaxEncoder
MaxEncoder == 2
\* the data blocks (channels) of an azimuth block are at most MaxChannels
MaxChannels == 2

(***************************************************************************)
(* Program constants.                                                      *)
(***************************************************************************)
\* arm::joints_num
joints_num == 6
\* home_position_check: epsilon = 2.0 * arm::degree
epsilon == 2
\* arm::fixed_status::size, the expected value of status_t::length
fixed_status_size == 812
\* arm::auto_init_force::fields, the token count of the force-limited variant
auto_init_force_fields == 4

\* config.continuum.home_position, degrees
home_position == <<0, -90, 90, 0, 90, 0>>

(***************************************************************************)
(* Inputs: the status frames the arm may send and the command lines the    *)
(* operator may send.                                                      *)
(***************************************************************************)
Frame(len, run, joints) == [length |-> len, running |-> run, joint_angles |-> joints]

\* running, at home: joint 0 is one degree off, inside the tolerance
FrameHome == Frame(fixed_status_size, TRUE, <<-1, -90, 90, 0, 90, 0>>)
\* running, only the last joint (index 5) outside the tolerance
FrameAway == Frame(fixed_status_size, TRUE, <<0, -90, 90, 0, 90, 3>>)
\* not running, at home
FrameIdle == Frame(fixed_status_size, FALSE, home_position)
\* a misaligned frame: its declared length is not the fixed size
FrameBad == Frame(fixed_status_size - 1, TRUE, <<0, -90, 90, 0, 90, 3>>)

Frames == {FrameHome, FrameAway, FrameIdle, FrameBad}

\* arm_status before any frame was read (a zero-initialised static)
InitStatus == Frame(0, FALSE, <<0, 0, 0, 0, 0, 0>>)

\* command lines, already split into tokens: ID, seq, operation, args...
Lines ==
    { <<"7", "1", "set_home">>,
      <<"7", "2", "bogus_op">>,
      <<"7", "3", "set_pos">>,
      <<"7", "4", "move_cam", "x", "0", "0">>,
      <<"7", "5", "POWER", "on">> }

VARIABLES
    pc,           \* position of main()
    cause,        \* why the session ended: "none" while it runs
    exit_code,    \* the process exit code, -1 while the process runs
    guard,        \* the stop_on_exit object on_exit: "none", "armed", "fired"
    pub,          \* the status publisher: "none", "open", "closed"
    signaled,     \* comma::signal_flag
    cin_good,     \* std::cin.good()
    stdin_buf,    \* lines written to stdin and not yet read by inputs.read()
    stdin_eof,    \* the input source was closed by its writer
    sent,         \* number of lines the input source delivered so far
    inputs_q,     \* the queue of arm::inputs
    received,     \* every line inputs.read() has queued, in order
    arm_status,   \* the global arm_status
    home_marker,  \* the home marker file exists
    U,            \* Arm_Controller_U (0: all zero / no_action)
    command_flag, \* Arm_Controller_Y.command_flag
    arm_out,      \* what was written to the arm command stream
    replies,      \* what output() wrote, each message with its stream os
    bcast,        \* the frames written to the publisher
    handled,      \* the commands dispatched to commands_handler
    steps,        \* the steps the current loop iteration has executed
    cycles,       \* loop iterations started
    completed,    \* loop iterations that reached the end of the loop body
    fb_buf,       \* SpecStatus: the frames the arm sends before the next wait
    fb_gap,       \* SpecStatus: milliseconds of silence before they arrive
    fb_left,      \* SpecStatus: the frames of fb_buf not yet read by iss.read()
    cmd_line,     \* SpecDispatch: the command vector given to process_command
    routed,       \* SpecDispatch: the outcome of process_command, empty before
    lidar_pc,     \* SpecLidar: the position of ouster-to-csv in output()
    data_block,   \* SpecLidar: the azimuth block is.read() returned, if any
    block_id,     \* SpecLidar: static block_id of process
    last_encoder_count, \* SpecLidar: static last_encoder_count of process
    os_written,   \* SpecLidar: the records written to the output stream
    blocks_read   \* SpecLidar: the blocks read so far

vars == << pc, cause, exit_code, guard, pub, signaled, cin_good, stdin_buf,
           stdin_eof, sent, inputs_q, received, arm_status,
           home_marker, U, command_flag, arm_out, replies, bcast, handled,
           steps, cycles, completed, fb_buf, fb_gap,
           fb_left, cmd_line, routed, lidar_pc, data_block, block_id,
           last_encoder_count, os_written, blocks_read >>

fb_vars == << fb_buf, fb_gap, fb_left >>
dispatch_vars == << cmd_line, routed >>
lidar_vars == << lidar_pc, data_block, block_id, last_encoder_count,
                os_written, blocks_read >>
\* the variables of the other specifications, constant in Spec
scenario_vars == << fb_vars, dispatch_vars, lidar_vars >>
io_vars == << stdin_buf, stdin_eof, sent, inputs_q, received >>
ctl_vars == << U, command_flag >>
out_vars == << arm_out, replies, bcast, handled >>
env_vars == << signaled, cin_good, arm_status, home_marker, scenario_vars >>

(***************************************************************************)
(* Helpers.                                                                *)
(***************************************************************************)
abs(x) == IF x < 0 THEN -x ELSE x

Last(s) == s[Len(s)]

\* the sequences over S of length 0..n
SeqUpTo(S, n) == UNION { [1..k -> S] : k \in 0..n }

(***************************************************************************)
(* stop_on_exit: the destructor writes the stop command, the power-off     *)
(* command and flushes.                                                    *)
(***************************************************************************)
STOPJ == "stopj([0.1,0.1,0.1,0.1,0.1,0.1])"
POWER_OFF == "power off"
FLUSH == "flush"
MOVEJ == "movej"

stop_on_exit_dtor_swapped(os) == os \o << POWER_OFF, STOPJ, FLUSH >>

stop_on_exit_dtor(os) == os \o << STOPJ, POWER_OFF, FLUSH >>

(***************************************************************************)
(* home_position_check                                                     *)
(***************************************************************************)
\* comma::math::equal( lhs, rhs, epsilon )
equal(a, b, eps) == abs(a - b) <= eps

\* one comparison of the loop body, i is the 0-based joint index.  Both
\* status.joint_angles (six elements) and home_position (six elements) are
\* read at index i; at i = joints_num that is a read past the end of both,
\* whose outcome oob is whatever the memory behind them holds.
joint_equal(status, i, oob) ==
    IF i < joints_num
    THEN equal(status.joint_angles[i + 1], home_position[i + 1], epsilon)
    ELSE oob

\* for( i=0; i<=arm::joints_num; ++i ) { if( !equal(...) ){ is_home=false; break; } }
RECURSIVE is_home_loop(_, _, _)
is_home_loop(status, i, oob) ==
    IF ~(i <= joints_num) THEN TRUE
    ELSE IF ~joint_equal(status, i, oob) THEN FALSE
    ELSE is_home_loop(status, i + 1, oob)

\* the loop reads past the end exactly when joints 0..5 all compare equal
reads_past_end(status) ==
    \A i \in 0..(joints_num - 1) : joint_equal(status, i, TRUE)

\* the marker file after home_position_check( status, homefile )
home_position_check_removes_when_idle(status, marker, oob) ==
    IF status.running
    THEN is_home_loop(status, 0, oob)
    ELSE FALSE

home_position_check(status, marker, oob) ==
    IF status.running
    THEN is_home_loop(status, 0, oob)
    ELSE marker

(***************************************************************************)
(* process_command and handle<C>                                           *)
(***************************************************************************)
\* lower-casing of the operation tokens of Lines (boost::iequals)
Lower(s) == CASE s = "POWER" -> "power"
              [] s = "Stop" -> "stop"
              [] s = "AUTO_INIT" -> "auto_init"
              [] s = "InitJ" -> "initj"
              [] OTHER -> s

iequals(a, b) == Lower(a) = Lower(b)

\* the dispatch table of process_command; v[3] is token[2]
command_variant_force_when_longer(v) ==
    IF iequals(v[3], "move_cam") THEN "move_cam"
    ELSE IF iequals(v[3], "set_pos") THEN "set_position"
    ELSE IF iequals(v[3], "set_home") THEN "set_home"
    ELSE IF iequals(v[3], "power") THEN "power"
    ELSE IF iequals(v[3], "brakes") \/ iequals(v[3], "stop") THEN "brakes"
    ELSE IF iequals(v[3], "auto_init")
         THEN IF Len(v) >= auto_init_force_fields THEN "auto_init_force" ELSE "auto_init"
    ELSE IF iequals(v[3], "initj") THEN "joint_move"
    ELSE "unknown"

command_variant(v) ==
    IF iequals(v[3], "move_cam") THEN "move_cam"
    ELSE IF iequals(v[3], "set_pos") THEN "set_position"
    ELSE IF iequals(v[3], "set_home") THEN "set_home"
    ELSE IF iequals(v[3], "power") THEN "power"
    ELSE IF iequals(v[3], "brakes") \/ iequals(v[3], "stop") THEN "brakes"
    ELSE IF iequals(v[3], "auto_init")
         THEN IF Len(v) = auto_init_force_fields THEN "auto_init_force" ELSE "auto_init"
    ELSE IF iequals(v[3], "initj") THEN "joint_move"
    ELSE "unknown"

\* number of fields of each command variant
fields(C) == CASE C = "move_cam" -> 6
               [] C = "set_position" -> 4
               [] C = "set_home" -> 3
               [] C = "power" -> 4
               [] C = "brakes" -> 4
               [] C = "auto_init" -> 3
               [] C = "auto_init_force" -> auto_init_force_fields
               [] C = "joint_move" -> 5

\* a token that converts to a number
numeric(t) == t \in {"0", "1", "10"}

\* the argument tokens of variant C that must convert to a number
numeric_fields(C) == CASE C = "move_cam" -> {4, 5, 6}
                       [] C = "auto_init_force" -> {4}
                       [] C = "joint_move" -> {4, 5}
                       [] OTHER -> {}

\* C::ascii().get( line ): "ok", or the exception it throws
ascii_get(C, v) ==
    IF Len(v) # fields(C) THEN "comma_exception"
    ELSE IF \E i \in numeric_fields(C) : ~numeric(v[i]) THEN "bad_lexical_cast"
    ELSE "ok"

\* c.serialise(): the fields of the parsed command
serialise(C, v) == v

\* the input of the controller a handler sets (0 is no_action)
intent(C) == CASE C = "move_cam" -> 1
               [] C = "set_position" -> 2
               [] C = "set_home" -> 3
               [] C = "joint_move" -> 4
               [] OTHER -> 0

\* what commands_handler writes to the arm for variant C
handler_writes(C) == CASE C = "power" -> << "handler:power", FLUSH >>
                       [] C = "brakes" -> << "handler:brakes", FLUSH >>
                       [] C = "auto_init" -> << "handler:auto_init", FLUSH >>
                       [] C = "auto_init_force" -> << "handler:auto_init", FLUSH >>
                       [] OTHER -> << >>

\* the codes commands_handler->ret may carry
HandlerResults == {"ok", "op_failure"}

Reply(lead, flds, code, msg, tail) ==
    [lead |-> lead, fields |-> flds, code |-> code, msg |-> msg, tail |-> tail]

\* handle<C>( line, os ): the reply, whether the command was dispatched to
\* commands_handler, and whether handle threw.  ret is the result the
\* handler leaves in commands_handler->ret.
handle_dispatch_before_parse(C, line, ret) ==
    LET got == ascii_get(C, line) IN
    IF got = "ok"
    THEN [reply |-> Reply("<", serialise(C, line), ret, <<"handler message">>, ";"),
          dispatched |-> TRUE, thrown |-> FALSE]
    ELSE [reply |-> Reply("<", line, "format_error",
                          <<"command format error, wrong field/s or field type/s">>, ";"),
          dispatched |-> TRUE, thrown |-> FALSE]

handle_reply_without_dispatch(C, line, ret) ==
    LET got == ascii_get(C, line) IN
    IF got = "ok"
    THEN [reply |-> Reply("<", serialise(C, line), "ok", <<"handler message">>, ";"),
          dispatched |-> FALSE, thrown |-> FALSE]
    ELSE [reply |-> Reply("<", line, "format_error",
                          <<"command format error, wrong field/s or field type/s">>, ";"),
          dispatched |-> FALSE, thrown |-> FALSE]

handle(C, line, ret) ==
    LET got == ascii_get(C, line) IN
    CASE got = "bad_lexical_cast" ->
           [reply |-> Reply("<", line, "format_error",
                            <<"command format error, wrong field type/s">>, ";"),
            dispatched |-> FALSE, thrown |-> FALSE]
      [] got = "comma_exception" ->
           [reply |-> Reply("<", line, "format_error",
                            <<"command format error, wrong field/s or field type/s">>, ";"),
            dispatched |-> FALSE, thrown |-> FALSE]
      [] got = "ok" ->
           [reply |-> Reply("<", serialise(C, line), ret, <<"handler message">>, ";"),
            dispatched |-> TRUE, thrown |-> FALSE]
      [] OTHER ->
           [reply |-> Reply("", line, "none", << >>, ""),
            dispatched |-> FALSE, thrown |-> TRUE]

\* process_command( v, os ): the outcome of the line v
process_command_unknown_dispatches(v, ret) ==
    LET C == command_variant(v) IN
    IF C = "unknown"
    THEN [reply |-> Reply("", v, "unknown_command",
                          <<"unknown command found", v[3]>>, ""),
          dispatched |-> TRUE, thrown |-> FALSE, variant |-> "brakes"]
    ELSE [variant |-> C] @@ handle(C, v, ret)

process_command(v, ret) ==
    LET C == command_variant(v) IN
    IF C = "unknown"
    THEN [reply |-> Reply("", v, "unknown_command",
                          <<"unknown command found", v[3]>>, ""),
          dispatched |-> FALSE, thrown |-> FALSE, variant |-> C]
    ELSE [variant |-> C] @@ handle(C, v, ret)

(***************************************************************************)
(* read_status                                                             *)
(***************************************************************************)
\* arm_status = *( iss.read() ); while( iss.has_data() ) { arm_status = *( iss.read() ); }
\* the result is the last frame read and what is left in the buffer
drain_first_only(buf, status) ==
    IF buf = << >> THEN [status |-> status, left |-> buf]
    ELSE [status |-> Head(buf), left |-> Tail(buf)]

RECURSIVE drain(_, _)
drain(buf, status) ==
    IF buf = << >> THEN [status |-> status, left |-> buf]
    ELSE drain(Tail(buf), Head(buf))

\* read_status with buf buffered when the wait ends: the arm_status it
\* leaves and how it ends ("ok", or the exception thrown)
read_status_reads_before_ready(buf, status) ==
    IF buf = << >>
    THEN [status |-> InitStatus, end |-> "status_timeout", left |-> buf]
    ELSE LET d == drain(buf, status)
             s == d.status
         IN  [status |-> s,
              end |-> IF s.length # fixed_status_size THEN "alignment" ELSE "ok",
              left |-> d.left]

read_status(buf, status) ==
    IF buf = << >>
    THEN [status |-> status, end |-> "status_timeout", left |-> buf]
    ELSE LET d == drain(buf, status)
             s == d.status
         IN  [status |-> s,
              end |-> IF s.length # fixed_status_size THEN "alignment" ELSE "ok",
              left |-> d.left]

(***************************************************************************)
(* main                                                                    *)
(***************************************************************************)
\* process_command has not been called; no azimuth block has been read and
\* the statics of process have their initial values
DispatchIdle == cmd_line = << >> /\ routed = << >>

\* ouster-to-csv not started: the statics of process as initialised
LidarStatics ==
    /\ data_block = << >>
    /\ block_id = 0
    /\ last_encoder_count = 0
    /\ os_written = << >>
    /\ blocks_read = 0

LidarIdle == lidar_pc = "idle" /\ LidarStatics

\* the daemon before main has done anything
DaemonStart ==
    /\ pc = "start"
    /\ cause = "none"
    /\ exit_code = -1
    /\ guard = "none"
    /\ pub = "none"
    /\ signaled = FALSE
    /\ cin_good = TRUE
    /\ stdin_buf = << >>
    /\ stdin_eof = FALSE
    /\ sent = 0
    /\ inputs_q = << >>
    /\ received = << >>
    /\ arm_status = InitStatus
    /\ home_marker \in BOOLEAN
    /\ U = 0
    /\ command_flag = 0
    /\ arm_out = << >>
    /\ replies = << >>
    /\ bcast = << >>
    /\ handled = << >>
    /\ steps = << >>
    /\ cycles = 0
    /\ completed = 0

\* nothing is known of the feedback traffic
FeedbackIdle == fb_buf = << >> /\ fb_gap = 0 /\ fb_left = << >>

Init == DaemonStart /\ FeedbackIdle /\ DispatchIdle /\ LidarIdle

\* COMMA_THROW inside the try block of main
Throw_and_retry(c) == pc' = "loop_test" /\ cause' = c

Throw(c) == pc' = "thrown" /\ cause' = c

\* the exit code of each way out of the try block: `return 1`, a catch
\* handler (`return 1`), or falling off the end of main
exit_status_zero(path) == 0

exit_status(path) == IF path = "end_of_try" THEN 0 ELSE 1

\* a termination signal sets the flag; it is read at the top of the loop
Signal ==
    /\ pc # "done"
    /\ ~signaled
    /\ signaled' = TRUE
    /\ UNCHANGED << pc, cause, exit_code, guard, pub, cin_good, io_vars,
                    arm_status, home_marker, scenario_vars, ctl_vars,
                    out_vars,
                    steps, cycles, completed >>

\* options, load_config and the work directory checks
Startup ==
    /\ pc = "start"
    /\ \E config_ok \in BOOLEAN, work_directory \in {"ok", "empty", "missing", "not_directory"} :
          IF ~config_ok THEN Throw("config")
          ELSE IF work_directory # "ok"
          THEN pc' = "return_1" /\ cause' = "work_directory"
          ELSE pc' = "connect_command" /\ UNCHANGED cause
    /\ UNCHANGED << exit_code, guard, pub, env_vars, io_vars, ctl_vars,
                    out_vars, steps, cycles, completed >>

\* the command channel, then stop_on_exit on_exit and the publisher
ConnectCommand ==
    /\ pc = "connect_command"
    /\ \E connected \in BOOLEAN :
          IF ~connected
          THEN pc' = "return_1" /\ cause' = "command_connect" /\ UNCHANGED << guard, pub >>
          ELSE pc' = "connect_feedback" /\ guard' = "armed" /\ pub' = "open" /\ UNCHANGED cause
    /\ UNCHANGED << exit_code, env_vars, io_vars, ctl_vars, out_vars, steps,
                    cycles, completed >>

\* the feedback channel
ConnectFeedback ==
    /\ pc = "connect_feedback"
    /\ \E connected \in BOOLEAN :
          IF ~connected THEN Throw("feedback_connect")
          ELSE pc' = "loop_test" /\ UNCHANGED cause
    /\ UNCHANGED << exit_code, guard, pub, env_vars, io_vars, ctl_vars,
                    out_vars, steps, cycles, completed >>

\* while( !signaled && std::cin.good() )
loop_condition_ignores_cin == ~signaled

loop_condition_ignores_signal == cin_good

loop_condition == ~signaled /\ cin_good

LoopEnter ==
    /\ pc = "loop_test"
    /\ loop_condition
    /\ cycles < MaxCycles
    /\ pc' = "check_feedback"
    /\ cycles' = cycles + 1
    /\ steps' = << >>
    /\ UNCHANGED << cause, exit_code, guard, pub, env_vars, io_vars, ctl_vars,
                    out_vars, completed >>

LoopExit ==
    /\ pc = "loop_test"
    /\ ~loop_condition
    /\ pc' = "shutdown"
    /\ cause' = "clean"
    /\ steps' = << >>
    /\ UNCHANGED << exit_code, guard, pub, env_vars, io_vars, ctl_vars,
                    out_vars, cycles, completed >>

\* if( !status_stream->good() ) COMMA_THROW
CheckFeedback_then_inputs ==
    /\ pc = "check_feedback"
    /\ \E good \in BOOLEAN :
          IF ~good THEN Throw("feedback_lost") /\ UNCHANGED steps
          ELSE pc' = "inputs_read" /\ steps' = Append(steps, "check_feedback")
               /\ UNCHANGED cause
    /\ UNCHANGED << exit_code, guard, pub, env_vars, io_vars, ctl_vars,
                    out_vars, cycles, completed >>

CheckFeedback ==
    /\ pc = "check_feedback"
    /\ \E good \in BOOLEAN :
          IF ~good THEN Throw("feedback_lost") /\ UNCHANGED steps
          ELSE pc' = "read_status" /\ steps' = Append(steps, "check_feedback")
               /\ UNCHANGED cause
    /\ UNCHANGED << exit_code, guard, pub, env_vars, io_vars, ctl_vars,
                    out_vars, cycles, completed >>

\* read_status( istream, select, fd ); buf is what the arm has sent, and the
\* feedback channel holds, when select.wait returns (nothing: the wait
\* elapsed with the descriptor not ready)
ReadStatusWith(buf) ==
    /\ pc = "read_status"
    /\ LET r == read_status(buf, arm_status) IN
          /\ arm_status' = r.status
          /\ IF r.end = "ok"
             THEN pc' = "home_check" /\ steps' = Append(steps, "read_status")
                  /\ UNCHANGED cause
             ELSE Throw(r.end) /\ UNCHANGED steps
    /\ UNCHANGED << exit_code, guard, pub, signaled, cin_good, home_marker,
                    io_vars, ctl_vars, out_vars, cycles, completed >>

\* what may be buffered on the feedback channel when a wait returns
Backlogs == SeqUpTo(Frames, MaxBuf)

ReadStatus ==
    /\ pc = "read_status"
    /\ \E buf \in Backlogs : ReadStatusWith(buf)
    /\ UNCHANGED scenario_vars

HomeCheck ==
    /\ pc = "home_check"
    /\ \E oob \in BOOLEAN :
          home_marker' = home_position_check(arm_status, home_marker, oob)
    /\ pc' = "inputs_read"
    /\ steps' = Append(steps, "home_check")
    /\ UNCHANGED << cause, exit_code, guard, pub, signaled, cin_good,
                    arm_status, scenario_vars, io_vars, ctl_vars, out_vars,
                    cycles,
                    completed >>

\* the input source writes a command line
StdinWrite ==
    /\ pc = "inputs_read"
    /\ ~stdin_eof
    /\ sent < MaxLines
    /\ \E l \in Lines : stdin_buf' = Append(stdin_buf, l)
    /\ sent' = sent + 1
    /\ UNCHANGED << pc, cause, exit_code, guard, pub, env_vars, stdin_eof,
                    inputs_q, received, ctl_vars, out_vars, steps,
                    cycles, completed >>

\* the input source closes its end
StdinClose ==
    /\ pc = "inputs_read"
    /\ ~stdin_eof
    /\ stdin_eof' = TRUE
    /\ UNCHANGED << pc, cause, exit_code, guard, pub, env_vars, stdin_buf,
                    sent, inputs_q, received, ctl_vars, out_vars,
                    steps, cycles, completed >>

\* inputs.read(): every line that is ready is queued, oldest first
inputs_read(q, buf) == q \o buf

\* try { inputs.read(); } catch(...) { COMMA_THROW }
InputsRead ==
    /\ pc = "inputs_read"
    /\ \E read_ok \in BOOLEAN :
          IF ~read_ok
          THEN /\ Throw("input_read")
               /\ UNCHANGED << cin_good, stdin_buf, inputs_q, received, steps >>
          ELSE /\ inputs_q' = inputs_read(inputs_q, stdin_buf)
               /\ received' = received \o stdin_buf
               /\ stdin_buf' = << >>
               /\ cin_good' = ~stdin_eof
               /\ pc' = "process"
               /\ steps' = Append(steps, "inputs_read")
               /\ UNCHANGED cause
    /\ UNCHANGED << exit_code, guard, pub, signaled, arm_status, home_marker,
                    scenario_vars, stdin_eof, sent, ctl_vars, out_vars,
                    cycles,
                    completed >>

\* void output( const std::string& msg, std::ostream& os=std::cout ): every
\* call in process_command passes msg alone, so os is std::cout; the stream
\* given to process_command and handle (*robot_arm) is not handed on
output_to_arm(msg, log) ==
    Append(log, [lead |-> msg.lead, fields |-> msg.fields, code |-> msg.code,
                 msg |-> msg.msg, tail |-> msg.tail, os |-> "robot_arm"])

output(msg, log) ==
    Append(log, [lead |-> msg.lead, fields |-> msg.fields, code |-> msg.code,
                 msg |-> msg.msg, tail |-> msg.tail, os |-> "cout"])

\* v = inputs.front(); inputs.pop();
front_without_pop(q) == [v |-> Head(q), rest |-> q]

front_and_pop(q) == [v |-> Head(q), rest |-> Tail(q)]

\* if( !inputs.is_empty() ) { v = inputs.front(); inputs.pop(); process_command( v, *robot_arm ); }
ProcessQueued ==
    /\ pc = "process"
    /\ inputs_q # << >>
    /\ \E ret \in HandlerResults :
          LET t == front_and_pop(inputs_q)
              v == t.v
              r == process_command(v, ret)
          IN  /\ inputs_q' = t.rest
              /\ IF r.thrown
                 THEN /\ Throw("parse_fault")
                      /\ UNCHANGED << replies, handled, arm_out, U, steps >>
                 ELSE /\ replies' = output(r.reply, replies)
                      /\ IF r.dispatched
                         THEN /\ handled' = Append(handled, << r.variant, v >>)
                              /\ arm_out' = arm_out \o handler_writes(r.variant)
                              /\ U' = IF ret = "ok" /\ intent(r.variant) # 0
                                      THEN intent(r.variant) ELSE U
                         ELSE UNCHANGED << handled, arm_out, U >>
                      /\ pc' = "step"
                      /\ steps' = Append(steps, "dispatch")
                      /\ UNCHANGED cause
    /\ UNCHANGED << exit_code, guard, pub, env_vars, stdin_buf, stdin_eof,
                    sent, received, command_flag, bcast, cycles,
                    completed >>

ProcessNone ==
    /\ pc = "process"
    /\ inputs_q = << >>
    /\ pc' = "step"
    /\ UNCHANGED << cause, exit_code, guard, pub, env_vars, io_vars, ctl_vars,
                    out_vars, steps, cycles, completed >>

\* Arm_Controller_step(): the generated controller sets the command flag
ControllerStep ==
    /\ pc = "step"
    /\ \E flag \in {-1, 0, 1} : command_flag' = flag
    /\ pc' = "send"
    /\ steps' = Append(steps, "step")
    /\ UNCHANGED << cause, exit_code, guard, pub, env_vars, io_vars, U,
                    out_vars, cycles, completed >>

\* if( command_flag > 0 ) { send movej; flush; motion_primitive = no_action }
\* else if( command_flag < 0 ) { report the collision }
send_unless_idle(os, flag) ==
    IF flag # 0 THEN os \o << MOVEJ, FLUSH >> ELSE os

send(os, flag) ==
    IF flag > 0 THEN os \o << MOVEJ, FLUSH >> ELSE os

Send ==
    /\ pc = "send"
    /\ arm_out' = send(arm_out, command_flag)
    /\ IF command_flag > 0
       THEN /\ U' = 0
            /\ steps' = Append(steps, "send")
       ELSE UNCHANGED << U, steps >>
    /\ pc' = "reset"
    /\ UNCHANGED << cause, exit_code, guard, pub, env_vars, io_vars,
                    command_flag, replies, bcast, handled, cycles, completed >>

\* memset( &Arm_Controller_U, 0, sizeof( ExtU_Arm_Controller_T ) )
ResetInputs_skipped ==
    /\ pc = "reset"
    /\ pc' = "broadcast"
    /\ UNCHANGED << cause, exit_code, guard, pub, env_vars, io_vars, ctl_vars,
                    out_vars, steps, cycles, completed >>

ResetInputs ==
    /\ pc = "reset"
    /\ U' = 0
    /\ pc' = "broadcast"
    /\ UNCHANGED << cause, exit_code, guard, pub, env_vars, io_vars,
                    command_flag, out_vars, steps, cycles, completed >>

\* output.write_arm_status( publisher ): one frame, the binary image of the
\* controller output structure the arm_output object refers to, as the
\* controller step of this loop iteration left it
write_arm_status_on_command(publisher) ==
    IF command_flag > 0
    THEN Append(publisher, [output_of_step |-> cycles])
    ELSE publisher

write_arm_status(publisher) ==
    Append(publisher, [output_of_step |-> cycles])

Broadcast ==
    /\ pc = "broadcast"
    /\ bcast' = write_arm_status(bcast)
    /\ pc' = "sleep"
    /\ steps' = Append(steps, "broadcast")
    /\ UNCHANGED << cause, exit_code, guard, pub, env_vars, io_vars, ctl_vars,
                    arm_out, replies, handled, cycles, completed >>

\* if( sleep > 0 ) usleep( usec ); the end of the loop body
Sleep ==
    /\ pc = "sleep"
    /\ completed' = completed + 1
    /\ pc' = "loop_test"
    /\ steps' = Append(steps, "sleep")
    /\ UNCHANGED << cause, exit_code, guard, pub, env_vars, io_vars, ctl_vars,
                    out_vars, cycles >>

\* after the loop: "power off", flush, publisher.close()
Shutdown_without_power_off ==
    /\ pc = "shutdown"
    /\ pub' = "closed"
    /\ pc' = "end_of_try"
    /\ UNCHANGED << cause, exit_code, guard, env_vars, io_vars, ctl_vars,
                    out_vars, steps, cycles, completed >>

Shutdown ==
    /\ pc = "shutdown"
    /\ arm_out' = arm_out \o << POWER_OFF, FLUSH >>
    /\ pub' = "closed"
    /\ pc' = "end_of_try"
    /\ UNCHANGED << cause, exit_code, guard, env_vars, io_vars, ctl_vars,
                    replies, bcast, handled, steps, cycles, completed >>

\* leaving the try block (a return, an exception, or its end): the
\* destructors of the objects constructed so far run, the publisher before
\* on_exit, then main returns
scope_exit_without_guard(os) == os

scope_exit(os) == IF guard = "armed" THEN stop_on_exit_dtor(os) ELSE os

ScopeExit ==
    /\ pc \in {"return_1", "thrown", "end_of_try"}
    /\ pub' = IF pub = "open" THEN "closed" ELSE pub
    /\ arm_out' = scope_exit(arm_out)
    /\ guard' = IF guard = "armed" THEN "fired" ELSE guard
    /\ exit_code' = exit_status(pc)
    /\ pc' = "done"
    /\ UNCHANGED << cause, env_vars, io_vars, ctl_vars, replies, bcast,
                    handled, steps, cycles, completed >>

Next ==
    \/ Signal
    \/ Startup
    \/ ConnectCommand
    \/ ConnectFeedback
    \/ LoopEnter
    \/ LoopExit
    \/ CheckFeedback
    \/ ReadStatus
    \/ HomeCheck
    \/ StdinWrite
    \/ StdinClose
    \/ InputsRead
    \/ ProcessQueued
    \/ ProcessNone
    \/ ControllerStep
    \/ Send
    \/ ResetInputs
    \/ Broadcast
    \/ Sleep
    \/ Shutdown
    \/ ScopeExit

Spec == Init /\ [][Next]_vars

(***************************************************************************)
(* One call of read_status and the home check that follows it, with the    *)
(* traffic of the feedback channel as a visible input: fb_buf is what the  *)
(* arm sends, fb_gap the silence, in milliseconds, before it arrives.      *)
(***************************************************************************)
\* static const boost::posix_time::milliseconds timeout( 0.1 * 1000000u );
\* the argument, 0.1 * 1000000, is a count of milliseconds
timeout_ms == (1 * 1000000) \div 10

\* select.wait( timeout ); select.read().ready( fd ): what is buffered when
\* the wait returns.  Frames arriving after gap milliseconds are seen iff
\* the wait has not elapsed by then.
select_wait(pending, gap) ==
    IF gap < timeout_ms THEN pending ELSE << >>

\* milliseconds of silence on the feedback channel: none, within the 100 ms
\* the arm promises, 150 ms, and longer than the wait of line 284
Gaps == {0, 50, 150, 2 * timeout_ms}

\* the loop body is at read_status( status_stream, select, fd ) in some
\* cycle: the guard is armed, the publisher open, arm_status is the initial
\* value or the validated frame of the cycle before
InitAtReadStatus ==
    /\ pc = "read_status"
    /\ cause = "none"
    /\ exit_code = -1
    /\ guard = "armed"
    /\ pub = "open"
    /\ signaled = FALSE
    /\ cin_good = TRUE
    /\ stdin_buf = << >>
    /\ stdin_eof = FALSE
    /\ sent = 0
    /\ inputs_q = << >>
    /\ received = << >>
    /\ arm_status \in {InitStatus, FrameHome, FrameAway, FrameIdle}
    /\ home_marker \in BOOLEAN
    /\ U = 0
    /\ command_flag = 0
    /\ arm_out = << >>
    /\ replies = << >>
    /\ bcast = << >>
    /\ handled = << >>
    /\ steps = << "check_feedback" >>
    /\ cycles = 1
    /\ completed = 0
    /\ fb_buf \in SeqUpTo(Frames, MaxBacklog)
    /\ fb_gap \in Gaps
    /\ fb_left = fb_buf
    /\ DispatchIdle
    /\ LidarIdle

\* read_status on the traffic of the scenario; the frames it read are gone
\* from the channel, after a timeout nothing was read
ReadBuffered ==
    /\ ReadStatusWith(select_wait(fb_left, fb_gap))
    /\ fb_left' = IF select_wait(fb_left, fb_gap) = << >>
                  THEN fb_left
                  ELSE read_status(select_wait(fb_left, fb_gap), arm_status).left
    /\ UNCHANGED << fb_buf, fb_gap, dispatch_vars, lidar_vars >>

NextStatus ==
    \/ ReadBuffered
    \/ HomeCheck
    \/ ScopeExit

SpecStatus == InitAtReadStatus /\ [][NextStatus]_vars

(***************************************************************************)
(* process_command applied to one command vector, over every operation     *)
(* name of the dispatch table in several spellings and over argument lists *)
(* of every length up to MaxArgs.  The other variables play no part.        *)
(***************************************************************************)
\* token[2] of the command vectors
Ops == {"move_cam", "set_pos", "set_home", "power", "POWER", "brakes", "stop",
        "Stop", "auto_init", "AUTO_INIT", "initj", "InitJ", "bogus_op",
        "movej"}

\* argument tokens: one that converts to a number and one that does not
ArgTokens == {"1", "x"}

DispatchLines ==
    { << "7", "1", op >> \o args : op \in Ops,
                                   args \in SeqUpTo(ArgTokens, MaxArgs) }

InitDispatch ==
    /\ DaemonStart /\ FeedbackIdle /\ LidarIdle
    /\ cmd_line \in DispatchLines
    /\ routed = << >>

\* process_command( v, *robot_arm )
Route ==
    /\ routed = << >>
    /\ cmd_line # << >>
    /\ \E ret \in HandlerResults : routed' = << process_command(cmd_line, ret) >>
    /\ UNCHANGED << pc, cause, exit_code, guard, pub, signaled, cin_good,
                    arm_status, home_marker, fb_vars, lidar_vars, io_vars,
                    ctl_vars, out_vars, steps, cycles, completed, cmd_line >>

SpecDispatch == InitDispatch /\ [][Route]_vars

(***************************************************************************)
(* ouster-to-csv: output() and process() for lidar azimuth blocks          *)
(* (SpecLidar).                                                            *)
(***************************************************************************)
PacketStatus == {"good", "bad"}

\* the azimuth blocks is.read() may return
Blocks == [packet_status : PacketStatus,
           encoder_count : 0..MaxEncoder,
           data_blocks : UNION { [1..n -> {"range"}] : n \in 1..MaxChannels }]

\* one os.write of process: output_lidar_t of the azimuth block tagged with
\* the block id, and of the data block of the channel
output_lidar_t(azimuth_block, id, channel) ==
    [block_id |-> id,
     encoder_count |-> azimuth_block.encoder_count,
     channel |-> channel,
     data |-> azimuth_block.data_blocks[channel + 1]]

\* process( azimuth_block, os ) on the statics st: the statics after the call.
\* block_id is a comma::uint32 counted up from 0 by at most one per block, so
\* within MaxBlocks blocks block_id++ stays below its wrap at 2^32
process_counts_repeated_encoder(azimuth_block, st) ==
    IF azimuth_block.packet_status = "good"
    THEN LET id == IF azimuth_block.encoder_count <= st.last_encoder_count
                   THEN st.block_id + 1
                   ELSE st.block_id
         IN [block_id |-> id,
             last_encoder_count |-> azimuth_block.encoder_count,
             os |-> st.os \o [c \in 1..Len(azimuth_block.data_blocks) |->
                                 output_lidar_t(azimuth_block, id, c - 1)]]
    ELSE st

process(azimuth_block, st) ==
    IF azimuth_block.packet_status = "good"
    THEN LET id == IF azimuth_block.encoder_count < st.last_encoder_count
                   THEN st.block_id + 1
                   ELSE st.block_id
         IN [block_id |-> id,
             last_encoder_count |-> azimuth_block.encoder_count,
             os |-> st.os \o [c \in 1..Len(azimuth_block.data_blocks) |->
                                 output_lidar_t(azimuth_block, id, c - 1)]]
    ELSE st

InitLidar ==
    /\ DaemonStart /\ FeedbackIdle /\ DispatchIdle
    /\ lidar_pc = "loop"
    /\ LidarStatics

lidar_frame == << pc, cause, exit_code, guard, pub, signaled, cin_good,
                 arm_status, home_marker, fb_vars, dispatch_vars, io_vars,
                 ctl_vars, out_vars, steps, cycles, completed >>

\* const I* data_block = is.read(): a block of the input
LidarRead ==
    /\ lidar_pc = "loop"
    /\ blocks_read < MaxBlocks
    /\ \E b \in Blocks : data_block' = << b >>
    /\ blocks_read' = blocks_read + 1
    /\ lidar_pc' = "process"
    /\ UNCHANGED << block_id, last_encoder_count, os_written, lidar_frame >>

\* is.read() returns null at the end of the input: process is not called,
\* the loop condition fails and output() returns
LidarEnd ==
    /\ lidar_pc = "loop"
    /\ lidar_pc' = "done"
    /\ UNCHANGED << data_block, block_id, last_encoder_count, os_written,
                    blocks_read, lidar_frame >>

\* if( data_block ) { process( *data_block, os ); }
LidarProcess ==
    /\ lidar_pc = "process"
    /\ LET st == process(data_block[1],
                         [block_id |-> block_id,
                          last_encoder_count |-> last_encoder_count,
                          os |-> os_written])
       IN /\ block_id' = st.block_id
          /\ last_encoder_count' = st.last_encoder_count
          /\ os_written' = st.os
    /\ lidar_pc' = "loop"
    /\ UNCHANGED << data_block, blocks_read, lidar_frame >>

NextLidar == LidarRead \/ LidarEnd \/ LidarProcess

SpecLidar == InitLidar /\ [][NextLidar]_vars

(***************************************************************************)
(* Properties.                                                             *)
(***************************************************************************)
Range(q) == { q[i] : i \in 1..Len(q) }

\* the last n writes of the stream os
LastWrites(os, n) ==
    IF Len(os) < n THEN << >> ELSE SubSeq(os, Len(os) - n + 1, Len(os))

\* how often the stop command is directly followed by the power-off command
StopSequences(os) ==
    Cardinality({ i \in 1..(Len(os) - 1) : os[i] = STOPJ /\ os[i + 1] = POWER_OFF })

\* the session has ended by a fatal error
Fatal == cause \notin {"none", "clean"}

\* C1: once the guard is installed, whichever way the session ends (loop
\* ended, fatal error, signal) the last writes on the arm command stream are
\* the stop command, then the power-off command, then a flush, and the
\* process has ended, so nothing is written after them.
C1_GuardWritesLast ==
    (pc = "done" /\ guard # "none")
        => /\ guard = "fired"
           /\ LastWrites(arm_out, 3) = << STOPJ, POWER_OFF, FLUSH >>

\* a session that ran a loop iteration, sent a motion command to the arm and
\* then lost the feedback channel
C1_Witness ==
    /\ pc = "done"
    /\ guard = "fired"
    /\ cause = "feedback_lost"
    /\ MOVEJ \in Range(arm_out)

\* C2: in a session in which the guard was installed the stop-then-power-off
\* sequence is on the arm output exactly once when the session has ended
\* (and not before the guard is destroyed), also when the session ends by
\* the status timeout.
C2_StopSequenceOnce ==
    /\ guard = "armed" => (pc # "done" /\ StopSequences(arm_out) = 0)
    /\ guard = "fired" => (pc = "done" /\ StopSequences(arm_out) = 1)

\* a session ended by the status timeout of read_status
C2_Witness ==
    /\ pc = "done"
    /\ guard = "fired"
    /\ cause = "status_timeout"
    /\ StopSequences(arm_out) = 1

\* C3: when read_status times out, the Arm Status is not modified, the loop
\* iteration ends there (of its steps only the feedback check ran: no home
\* check, no dispatch, no controller step, no broadcast), the shutdown
\* sequence is written to the arm and the exit code is 1.
C3_TimeoutState ==
    cause = "status_timeout"
        => /\ pc \in {"thrown", "done"}
           /\ steps = << "check_feedback" >>
           /\ Len(bcast) = completed
           /\ pc = "done"
                => /\ exit_code = 1
                   /\ LastWrites(arm_out, 3) = << STOPJ, POWER_OFF, FLUSH >>

C3_TimeoutStep ==
    (cause = "none" /\ cause' = "status_timeout")
        => /\ arm_status' = arm_status
           /\ home_marker' = home_marker
           /\ UNCHANGED << inputs_q, ctl_vars, out_vars >>

C3_StatusTimeoutIsFatal == []C3_TimeoutState /\ [][C3_TimeoutStep]_vars

\* status frames were read in a first iteration, then none arrived in time
C3_Witness ==
    /\ pc = "done"
    /\ cause = "status_timeout"
    /\ completed >= 1
    /\ arm_status # InitStatus
    /\ exit_code = 1

\* every joint 0..5 of the status is within the tolerance of its home angle
AllSixAtHome(status) ==
    \A i \in 1..joints_num :
        abs(status.joint_angles[i] - home_position[i]) <= epsilon

\* C4 (its case of a running status): after the home check of a loop
\* iteration whose status is running, the home marker file exists if and
\* only if all six joint angles are within the tolerance of the configured
\* home angles.
C4_MarkerIffAtHome ==
    (arm_status.running /\ "home_check" \in Range(steps))
        => (home_marker <=> AllSixAtHome(arm_status))

\* the operation names of the dispatch table
KnownOps == {"move_cam", "set_pos", "set_home", "power", "brakes", "stop",
             "auto_init", "initj"}

\* token[2] of the line names no operation
IsUnknown(v) == Lower(v[3]) \notin KnownOps

\* the line names an operation and its fields do not parse
ParseFails(v) ==
    /\ ~IsUnknown(v)
    /\ ascii_get(command_variant(v), v) \in {"bad_lexical_cast", "comma_exception"}

\* the line is valid for the schema of the operation it names
IsValid(v) ==
    /\ ~IsUnknown(v)
    /\ ascii_get(command_variant(v), v) = "ok"

\* this step processes the front line of the input queue
ProcessesFront == pc = "process" /\ pc' # pc /\ inputs_q # << >>

\* this step adds exactly one reply
OneReply == Len(replies') = Len(replies) + 1 /\ SubSeq(replies', 1, Len(replies)) = replies

\* C5: a line whose token[2] names no operation gets one reply with code
\* unknown_command that echoes the line and names the token; no handler is
\* invoked, nothing is written to the arm, the controller input is left
\* alone, no error is raised and the loop iteration goes on.
C5_UnknownStep ==
    (ProcessesFront /\ IsUnknown(Head(inputs_q)))
        => /\ OneReply
           /\ Last(replies').code = "unknown_command"
           /\ Last(replies').fields = Head(inputs_q)
           /\ Head(inputs_q)[3] \in Range(Last(replies').msg)
           /\ handled' = handled
           /\ arm_out' = arm_out
           /\ U' = U
           /\ pc' = "step"
           /\ cause' = "none"

C5_UnknownCommandReply == [][C5_UnknownStep]_vars

\* an unknown command was answered in the first iteration and the loop is
\* in its second iteration
C5_Witness ==
    /\ Len(replies) >= 1
    /\ replies[1].code = "unknown_command"
    /\ replies[1].fields = <<"7", "2", "bogus_op">>
    /\ handled = << >>
    /\ cycles = 2
    /\ pc = "read_status"

\* C6: a line naming a known operation whose fields do not parse gets one
\* reply with code format_error that echoes the input fields; the command is
\* not dispatched to the commands handler (the handler log, the controller
\* input and the arm output are unchanged) and no error is raised.
C6_FormatStep ==
    (ProcessesFront /\ ParseFails(Head(inputs_q)))
        => /\ OneReply
           /\ Last(replies').code = "format_error"
           /\ Last(replies').fields = Head(inputs_q)
           /\ handled' = handled
           /\ arm_out' = arm_out
           /\ U' = U
           /\ pc' = "step"
           /\ cause' = "none"

C6_FormatErrorReply == [][C6_FormatStep]_vars

\* both kinds of parse failure were answered: a wrong field count and a
\* field that does not convert
C6_Witness ==
    /\ Len(replies) = 2
    /\ replies[1].fields = <<"7", "3", "set_pos">>
    /\ replies[1].code = "format_error"
    /\ replies[2].fields = <<"7", "4", "move_cam", "x", "0", "0">>
    /\ replies[2].code = "format_error"
    /\ handled = << >>
    /\ pc = "step"

\* the lines taken off the input queue so far
Processed == SubSeq(received, 1, Len(received) - Len(inputs_q))

\* the lines of the commands given to the commands handler so far
HandledLines == [i \in 1..Len(handled) |-> handled[i][2]]

\* C7: a line valid for the schema of a known operation is dispatched to the
\* handler once and gets one reply, whose fields are the input fields and
\* whose code is ok or an operation-specific code; no error is raised.  Over
\* the session the handler has seen exactly the valid lines processed so
\* far, each once and in order.
C7_ValidStep ==
    (ProcessesFront /\ IsValid(Head(inputs_q)))
        => /\ OneReply
           /\ Last(replies').fields = Head(inputs_q)
           /\ Last(replies').code \in HandlerResults
           /\ Len(handled') = Len(handled) + 1
           /\ SubSeq(handled', 1, Len(handled)) = handled
           /\ Last(handled')[2] = Head(inputs_q)
           /\ pc' = "step"
           /\ cause' = "none"

C7_HandledOnce == HandledLines = SelectSeq(Processed, IsValid)

C8_BroadcastPerCycle ==
    /\ Len(bcast) = completed + (IF pc = "sleep" THEN 1 ELSE 0)
    /\ Fatal => Len(bcast) = completed

\* two iterations completed without any command queued or sent to the arm
C8_Witness ==
    /\ pc = "done"
    /\ completed = 2
    /\ Len(bcast) = 2
    /\ received = << >>
    /\ MOVEJ \notin Range(arm_out)

\* the fatal conditions
FatalCauses == {"config", "work_directory", "command_connect",
                "feedback_connect", "feedback_lost", "status_timeout",
                "alignment", "input_read", "parse_fault"}

\* C9: the exit code is 0 exactly when the loop ended by a clean shutdown
\* (signal observed or input source not good) and 1 for every fatal
\* condition.
C9_ExitCode ==
    /\ pc # "done" => exit_code = -1
    /\ pc = "done"
         => /\ cause \in FatalCauses \cup {"clean"}
            /\ cause = "clean" => (exit_code = 0 /\ (signaled \/ ~cin_good))
            /\ cause \in FatalCauses => exit_code = 1

\* a session ended by a misaligned status frame after a completed iteration
C9_Witness ==
    /\ pc = "done"
    /\ cause = "alignment"
    /\ exit_code = 1
    /\ completed >= 1

\* C10: when the session has ended by a clean shutdown after the input
\* source closed, every line received has been replied to, in arrival order.
C10_EveryLineReplied ==
    (pc = "done" /\ cause = "clean" /\ ~signaled)
        => /\ Len(replies) = Len(received)
           /\ \A i \in 1..Len(received) : replies[i].fields = received[i]

(***************************************************************************)
(* read_status against the traffic of the feedback channel (SpecStatus).   *)
(***************************************************************************)
\* read_status has returned or thrown
ReadStatusDone == pc # "read_status"

\* the frames read_status decoded: those of fb_buf no longer buffered
Decoded == SubSeq(fb_buf, 1, Len(fb_buf) - Len(fb_left))

\* C11: the bounded wait is 100 ms: whenever the arm stays silent for longer
\* than 100 ms (a 150 ms gap, say) read_status ends with the status timeout.
C11_WaitIs100ms ==
    (ReadStatusDone /\ fb_gap > 100) => cause = "status_timeout"

\* C12: every decoded frame whose declared length is not the fixed size
\* raises the alignment error, wherever it stood in the backlog.
C12_EveryBadFrameIsFatal ==
    (ReadStatusDone /\ \E i \in 1..Len(Decoded) :
                          Decoded[i].length # fixed_status_size)
        => cause = "alignment"

\* C13: in every state, the one in which the alignment error is raised
\* included, arm_status is its initial value or a frame of the fixed size.
C13_StatusAlwaysValidated ==
    arm_status = InitStatus \/ arm_status.length = fixed_status_size

\* C14: after read_status returned with k >= 1 frames buffered the buffer is
\* empty and arm_status is the k-th frame; nothing was written for the older
\* frames, and the home check that follows decides on the k-th frame alone.
C14_LastFrameWins ==
    /\ pc = "home_check" =>
          /\ fb_buf # << >>
          /\ fb_left = << >>
          /\ arm_status = Last(fb_buf)
          /\ arm_out = << >> /\ replies = << >> /\ bcast = << >>
          /\ handled = << >>
    /\ (pc = "inputs_read" /\ arm_status.running) =>
          /\ arm_status = Last(fb_buf)
          /\ home_marker => AllSixAtHome(Last(fb_buf))

\* a backlog of three, an at-home frame first and a misaligned one in the
\* middle: the last frame, away from home, decided
C14_Witness ==
    /\ pc = "inputs_read"
    /\ fb_buf = << FrameHome, FrameBad, FrameAway >>
    /\ fb_left = << >>
    /\ arm_status = FrameAway
    /\ ~home_marker

(***************************************************************************)
(* Replies.                                                                *)
(***************************************************************************)
\* C15: every reply line, whether for a success, a format error or an
\* unknown command, begins with '<' and ends with ';'.
C15_ReplyShape ==
    \A i \in 1..Len(replies) : replies[i].lead = "<" /\ replies[i].tail = ";"

\* C17 as stated: every command reply is written to the arm's own output
\* stream (the stream process_command is given, *robot_arm).
C17_RepliesOnArmStream ==
    \A i \in 1..Len(replies) : replies[i].os = "robot_arm"

\* C17, amended: every command reply (success, format error, unknown
\* command) is written to the standard output of the daemon; none is
\* written to the arm command stream or to the status broadcast channel.
C17_RepliesOnStdout ==
    /\ \A i \in 1..Len(replies) : replies[i].os = "cout"
    /\ \A j \in 1..Len(bcast) : DOMAIN bcast[j] = {"output_of_step"}

\* an unknown command and a format error were replied to and a status frame
\* was broadcast
C17_Witness ==
    /\ Len(replies) = 2
    /\ replies[1].code = "unknown_command" /\ replies[1].os = "cout"
    /\ replies[2].code = "format_error" /\ replies[2].os = "cout"
    /\ Len(bcast) >= 1

(***************************************************************************)
(* Fatal conditions and the guard.                                         *)
(***************************************************************************)
\* the fatal conditions met before `stop_on_exit on_exit( *robot_arm )`
BeforeGuard == {"config", "work_directory", "command_connect"}

\* C16 as stated: every fatal condition, an invalid work directory and a
\* failure to open the feedback channel included, ends the session with the
\* stop and power-off sequence written to the arm and exit code 1.
C16_EveryFatalStops ==
    (pc = "done" /\ cause \in {"work_directory", "feedback_connect",
                                 "feedback_lost", "status_timeout",
                                 "alignment", "input_read"})
        => /\ LastWrites(arm_out, 3) = << STOPJ, POWER_OFF, FLUSH >>
           /\ exit_code = 1

\* C16, amended: every fatal condition ends the session with exit code 1;
\* those met once the command channel is open and the guard installed (the
\* failure to open the feedback channel, its loss, status timeout or
\* misalignment, input read failure) end it with the stop and power-off
\* sequence written to the arm, while an invalid configuration or work
\* directory and a failure to open the command channel end it with nothing
\* written to the arm.
C16_FatalAfterGuardStops ==
    (pc = "done" /\ Fatal)
        => /\ exit_code = 1
           /\ IF cause \in BeforeGuard
              THEN guard = "none" /\ arm_out = << >>
              ELSE /\ guard = "fired"
                   /\ LastWrites(arm_out, 3) = << STOPJ, POWER_OFF, FLUSH >>

\* the feedback channel could not be opened: the guard, installed just
\* before, wrote the sequence to an arm that was sent nothing else
C16_Witness ==
    /\ pc = "done"
    /\ cause = "feedback_connect"
    /\ exit_code = 1
    /\ arm_out = << STOPJ, POWER_OFF, FLUSH >>

(***************************************************************************)
(* home_position_check.                                                    *)
(***************************************************************************)
\* C18: the home decision depends on exactly joints 0..5: for the running
\* status about to be checked, is_home is true iff all six joints are within
\* the tolerance of their home angles, and no joint index outside 0..5 is
\* read.
C18_SixJointsDecide ==
    (pc = "home_check" /\ arm_status.running)
        => /\ ~reads_past_end(arm_status)
           /\ \A oob \in BOOLEAN :
                 is_home_loop(arm_status, 0, oob) <=> AllSixAtHome(arm_status)

\* the home check has run in this loop iteration
HomeChecked == pc = "home_check" /\ pc' = "inputs_read"

\* C19: when the status does not report running, home_position_check leaves
\* the marker file as it was: it neither creates nor removes it.
C19_NotRunningKeepsMarker ==
    [][(HomeChecked /\ ~arm_status.running) => home_marker' = home_marker]_vars

\* the second loop iteration checked a status that is not running and the
\* marker file exists, as it did after the first iteration
C19_Witness ==
    /\ cycles = 2
    /\ completed = 1
    /\ "home_check" \in Range(steps)
    /\ ~arm_status.running
    /\ arm_status = FrameIdle
    /\ home_marker

(***************************************************************************)
(* The input queue.                                                        *)
(***************************************************************************)
\* the commands process_command was called for in this loop iteration
DispatchesThisCycle ==
    Len(SelectSeq(steps, LAMBDA x : x = "dispatch"))

\* C20: each loop iteration processes at most one queued command, the queue
\* front, which is popped before it is processed; over the session commands
\* are processed in the order they were queued, none twice: the replies are,
\* in order, those of the lines taken off the queue, one each.
C20_OldestFirstOncePerCycle ==
    /\ DispatchesThisCycle <= 1
    /\ Len(replies) <= cycles
    /\ Len(replies) + Len(inputs_q) = Len(received)
    /\ \A i \in 1..Len(replies) : replies[i].fields = received[i]
    /\ \A i \in 1..Len(inputs_q) : inputs_q[i] = received[Len(replies) + i]

\* the first read queued two commands; the first iteration processed the
\* older one and left the newer one queued
C20_Witness ==
    /\ cycles = 1
    /\ pc = "step"
    /\ Len(received) = 2
    /\ received[1] # received[2]
    /\ inputs_q = << received[2] >>
    /\ Len(replies) = 1
    /\ replies[1].fields = received[1]
    /\ DispatchesThisCycle = 1

(***************************************************************************)
(* The controller step and what follows it.                                *)
(***************************************************************************)
\* the loop is leaving the statement after Arm_Controller_step()
Sends == pc = "send" /\ pc' # pc

\* C21: after each controller step a motion command (movej), flushed, is
\* written to the arm if and only if the command flag is positive; with a
\* negative flag (collision rejection) or a zero flag nothing is written, and
\* in every case the loop goes on without an error.
C21_SendStep ==
    Sends =>
        /\ command_flag > 0 => arm_out' = arm_out \o << MOVEJ, FLUSH >>
        /\ command_flag <= 0 => arm_out' = arm_out
        /\ pc' = "reset" /\ cause' = "none"

C21_MotionIffPositiveFlag == [][C21_SendStep]_vars

\* a second iteration whose controller step rejected the command (negative
\* flag) after the first iteration sent a motion command: nothing was added
C21_Witness ==
    /\ cycles = 2
    /\ pc = "reset"
    /\ command_flag = -1
    /\ arm_out = << MOVEJ, FLUSH >>

(***************************************************************************)
(* Termination signal.                                                     *)
(***************************************************************************)
\* C22: a termination signal is acted on only at the top of a loop
\* iteration.  Its arrival changes nothing but the flag, wherever the cycle
\* stands; the loop is left for the shutdown code only from its condition;
\* with the flag set no further iteration starts and the condition leads to
\* the clean shutdown; a session that ended by the clean shutdown completed
\* every iteration it started, broadcast included, and exits with code 0.
C22_SignalStep ==
    /\ signaled' # signaled
          => UNCHANGED << pc, cause, exit_code, guard, pub, cin_good,
                          arm_status, home_marker, io_vars, ctl_vars,
                          out_vars, steps, cycles, completed >>
    /\ (pc = "loop_test" /\ pc' = "check_feedback") => ~signaled
    /\ (pc # "shutdown" /\ pc' = "shutdown")
          => pc = "loop_test" /\ cause' = "clean"
    /\ (signaled /\ pc = "loop_test" /\ pc' # pc) => pc' = "shutdown"

C22_CleanEnd ==
    (pc = "done" /\ cause = "clean")
        => exit_code = 0 /\ completed = cycles /\ Len(bcast) = cycles

FeedbackFailed == cause \in {"feedback_lost", "status_timeout"}

\* C23: feedback channel loss and status timeout are never retried: from
\* then on no status is read, no command dispatched, no controller step
\* run, no motion command and no frame written; the only write to the arm
\* is the stop and power-off of the guard, and the session ends.
C23_AfterFeedbackFailure ==
    FeedbackFailed =>
        /\ UNCHANGED << cause, arm_status, home_marker, replies, handled,
                        bcast, ctl_vars, steps, cycles, completed >>
        /\ \/ arm_out' = arm_out
           \/ /\ pc' = "done"
              /\ arm_out' = arm_out \o << STOPJ, POWER_OFF, FLUSH >>
        /\ pc' \in {"thrown", "done"}

C23_NoRetry == [][C23_AfterFeedbackFailure]_vars

\* after a completed iteration that dispatched a command and sent a motion
\* command, the status wait of the second iteration timed out
C23_Witness ==
    /\ pc = "done"
    /\ cause = "status_timeout"
    /\ cycles = 2 /\ completed = 1
    /\ Len(replies) = 1
    /\ Len(bcast) = 1
    /\ LastWrites(arm_out, 5) = << MOVEJ, FLUSH, STOPJ, POWER_OFF, FLUSH >>

(***************************************************************************)
(* Shutting down.                                                          *)
(***************************************************************************)
\* the ways the loop ends once the guard is installed and the loop entered
LoopEnds == {"clean", "feedback_lost", "status_timeout", "alignment",
             "input_read", "parse_fault"}

\* the explicit power-off of the shutdown code followed by the guard's writes
EarlyNoticeThenGuard == << POWER_OFF, FLUSH, STOPJ, POWER_OFF, FLUSH >>

\* C24 as stated: however the loop ends (signal observed, input source
\* closed, any fatal error in the loop) an explicit power-off is written to
\* the arm and the broadcast channel closed before the guard's stop and
\* power-off.
C24_EveryEndPowersOffFirst ==
    (pc = "done" /\ cause \in LoopEnds)
        => /\ LastWrites(arm_out, 5) = EarlyNoticeThenGuard
           /\ pub = "closed"

\* C24, amended: when the loop ends by its condition (signal observed or
\* input source not good) the explicit power-off is written and the
\* broadcast channel closed while the guard is still armed, and the guard's
\* stop and power-off follow; when it ends by a fatal error the explicit
\* power-off is not written: the guard's power-off is the only one, and the
\* broadcast channel is closed by the time the process ends.
C24_CleanEndPowersOffFirst ==
    /\ pc = "end_of_try"
          => /\ cause = "clean" /\ guard = "armed" /\ pub = "closed"
             /\ LastWrites(arm_out, 2) = << POWER_OFF, FLUSH >>
    /\ (pc = "done" /\ cause = "clean")
          => LastWrites(arm_out, 5) = EarlyNoticeThenGuard /\ pub = "closed"
    /\ (pc = "done" /\ cause \in LoopEnds \ {"clean"})
          => /\ LastWrites(arm_out, 3) = << STOPJ, POWER_OFF, FLUSH >>
             /\ Len(SelectSeq(arm_out, LAMBDA w : w = POWER_OFF)) = 1
             /\ pub = "closed"

\* the input source was closed: the loop ended by its condition after one
\* iteration and the session went through the shutdown code
C24_Witness ==
    /\ pc = "done"
    /\ cause = "clean"
    /\ ~signaled /\ ~cin_good
    /\ completed = 1
    /\ LastWrites(arm_out, 5) = EarlyNoticeThenGuard
    /\ pub = "closed"

(***************************************************************************)
(* Order of the steps of a loop iteration.                                 *)
(***************************************************************************)
\* the place of each step in the loop body
StepRank(x) == CASE x = "check_feedback" -> 1
                 [] x = "read_status" -> 2
                 [] x = "home_check" -> 3
                 [] x = "inputs_read" -> 4
                 [] x = "dispatch" -> 5
                 [] x = "step" -> 6
                 [] x = "send" -> 7
                 [] x = "broadcast" -> 8
                 [] x = "sleep" -> 9

\* the steps every completed iteration has; dispatch and send are optional
Optional(x) == x \in {"dispatch", "send"}
Mandatory(x) == ~Optional(x)

\* C25: within a loop iteration the steps are taken in the order feedback
\* check, status read, home check (on the status just read), reading of the
\* input, dispatch of at most one command, controller step, optional motion
\* command, broadcast, sleep: each step taken comes later in that order
\* than the one before it, the status in force is not replaced between its
\* read and the end of the iteration, and an iteration that reaches its end
\* has taken every step but the optional ones.
C25_OrderStep ==
    /\ (steps' # steps /\ steps' # << >>)
          => /\ Len(steps') = Len(steps) + 1
             /\ SubSeq(steps', 1, Len(steps)) = steps
             /\ steps # << >> => StepRank(Last(steps)) < StepRank(Last(steps'))
             /\ steps = << >> => Last(steps') = "check_feedback"
    /\ ("read_status" \in Range(steps) /\ pc' # "loop_test")
          => arm_status' = arm_status
    /\ completed' # completed
          => SelectSeq(steps', Mandatory) =
                << "check_feedback", "read_status", "home_check",
                   "inputs_read", "step", "broadcast", "sleep" >>

C25_StepOrder == [][C25_OrderStep]_vars

\* an iteration that took every step, the optional ones included
C25_Witness ==
    /\ pc = "loop_test"
    /\ completed = 1
    /\ steps = << "check_feedback", "read_status", "home_check",
                  "inputs_read", "dispatch", "step", "send", "broadcast",
                  "sleep" >>

(***************************************************************************)
(* The controller input.                                                   *)
(***************************************************************************)
\* C26: the controller input Arm_Controller_U is all zero when an iteration
\* reaches its end, whatever the command flag was, so a controller step sees
\* a non-zero input only in an iteration that dispatched a command, and the
\* input a command set is seen by the controller step of its own iteration
\* and by no later one.
C26_InputStep ==
    /\ completed' # completed => U = 0 /\ U' = 0
    /\ (pc = "reset" /\ pc' # pc) => U' = 0
    /\ (pc = "step" /\ pc' # pc /\ "dispatch" \notin Range(steps)) => U = 0
    /\ U' \notin {0, U} => (pc = "process" /\ pc' = "step")

C26_InputResetEachCycle == [][C26_InputStep]_vars

\* the second iteration is at its controller step with an all-zero input,
\* after a first iteration whose command set an intent and whose controller
\* step did not command a motion
C26_Witness ==
    /\ cycles = 2
    /\ pc = "step"
    /\ U = 0
    /\ command_flag = 0
    /\ Len(handled) = 1
    /\ handled[1][1] = "set_home"
    /\ replies[1].code = "ok"
    /\ "dispatch" \notin Range(steps)

(***************************************************************************)
(* Routing of a command vector (SpecDispatch).                             *)
(***************************************************************************)
\* the variant the dispatch table gives for an operation name in lower case
VariantOf(op) == CASE op = "move_cam" -> "move_cam"
                   [] op = "set_pos" -> "set_position"
                   [] op = "set_home" -> "set_home"
                   [] op = "power" -> "power"
                   [] op \in {"brakes", "stop"} -> "brakes"
                   [] op = "initj" -> "joint_move"
                   [] OTHER -> "unknown"

\* C27: process_command selects the variant from token[2] compared without
\* regard to case; for auto_init it selects the force-limited variant exactly
\* when the token count is that variant's field count, the plain variant for
\* every other count; a line goes to one variant, or, when token[2] names
\* none, to the unknown-command reply and to no handler.
C27_Routing ==
    routed # << >> =>
        LET op == Lower(cmd_line[3]) IN
        /\ op = "auto_init"
              => routed[1].variant =
                    IF Len(cmd_line) = fields("auto_init_force")
                    THEN "auto_init_force" ELSE "auto_init"
        /\ op # "auto_init" => routed[1].variant = VariantOf(op)
        /\ routed[1].variant = "unknown"
              <=> routed[1].reply.code = "unknown_command"
        /\ routed[1].variant = "unknown" => ~routed[1].dispatched
        /\ routed[1].dispatched => ascii_get(routed[1].variant, cmd_line) = "ok"

\* auto_init in upper case with one numeric argument, four tokens in all,
\* went to the force-limited variant and was dispatched
C27_Witness ==
    /\ cmd_line = << "7", "1", "AUTO_INIT", "1" >>
    /\ routed # << >>
    /\ routed[1].variant = "auto_init_force"
    /\ routed[1].dispatched

(***************************************************************************)
(* The broadcast frame.                                                    *)
(***************************************************************************)
\* the status byte and the six joint angles of a stored status frame
status_image(s) == [status |-> s.running, joint_angles |-> s.joint_angles]

\* C28 as stated: the frame broadcast at the end of a cycle carries the
\* current Arm Status, the status byte and the six joint angles of the frame
\* most recently stored in arm_status in that cycle.  The frame written is
\* the image of the controller output Arm_Controller_Y (arm_output refers to
\* it through current_positions); arm_status is not read by write_arm_status.
C28_FrameIsArmStatus ==
    pc = "sleep" => bcast[Len(bcast)] = status_image(arm_status)

(***************************************************************************)
(* ouster-to-csv: block ids (SpecLidar).                                   *)
(***************************************************************************)
\* the step of process on the block read: what the claim allows
C29_ProcessStep ==
    lidar_pc = "process" /\ lidar_pc' = "loop" =>
        LET b == data_block[1]
            n == Len(b.data_blocks)
        IN IF b.packet_status = "good"
           THEN /\ block_id' = IF b.encoder_count < last_encoder_count
                                THEN block_id + 1 ELSE block_id
                /\ last_encoder_count' = b.encoder_count
                /\ Len(os_written') = Len(os_written) + n
                /\ \A i \in 1..Len(os_written) : os_written'[i] = os_written[i]
                /\ \A c \in 1..n :
                      /\ os_written'[Len(os_written) + c].channel = c - 1
                      /\ os_written'[Len(os_written) + c].block_id = block_id'
           ELSE /\ block_id' = block_id
                /\ last_encoder_count' = last_encoder_count
                /\ os_written' = os_written

\* C29: the block id starts at 0, never decreases, and increases by exactly
\* one at each good-status block whose encoder count is strictly less than
\* that of the previous good-status block, and at no other block; a block
\* with a non-good packet status emits no record and changes neither the
\* block id nor the remembered encoder count; a good block emits exactly one
\* record per channel, all tagged with the same block id.
C29_BlockIds ==
    /\ [](blocks_read = 0 => block_id = 0)
    /\ [](os_written # << >> => os_written[1].block_id = 0)
    /\ [][block_id' >= block_id /\ C29_ProcessStep]_vars

\* a good block, a bad block and a good block with a smaller encoder count
\* were processed: the records of the first good block carry block id 0,
\* those of the last carry block id 1, the bad block left no record
C29_Witness ==
    /\ lidar_pc = "loop"
    /\ blocks_read = 3
    /\ block_id = 1
    /\ last_encoder_count = 0
    /\ Len(os_written) = 3
    /\ os_written[1].block_id = 0 /\ os_written[1].encoder_count = 2
    /\ os_written[2].block_id = 1 /\ os_written[2].channel = 0
    /\ os_written[3].block_id = 1 /\ os_written[3].channel = 1
====
